---- MODULE Spec2Model ----
(***************************************************************************)
(* The EV market segmentation notebook (src/EV_MarketSegmentation.ipynb)   *)
(* as a state machine.  The notebook is a straight-line script: each       *)
(* action below is one block of statements, pc is the position in the      *)
(* script, and an exception nobody catches ends the run (pc = "crashed",   *)
(* error holds the exception and the line that raised it).                 *)
(*                                                                         *)
(* scikit-learn is not part of the repository.  Its two calls are modelled *)
(* by their documented behaviour:                                          *)
(*   KMeans(n_clusters = k).fit(X) raises ValueError when X has fewer than *)
(*     k rows; otherwise it labels every row with an id in 0..k-1.  Rows   *)
(*     that are equal get equal labels.  With at least k distinct rows all *)
(*     k ids are used; with d < k distinct rows the partition is the one   *)
(*     into the d distinct rows and only d of the k ids are used (sklearn  *)
(*     warns "Number of distinct clusters found smaller than n_clusters"). *)
(*   silhouette_score(X, labels) raises ValueError unless the number of    *)
(*     distinct labels is in 2..n-1; otherwise it is a number that depends *)
(*     on the partition only.                                              *)
(*   A KMeans built with an integer random_state is a function of its      *)
(*     input: the value it returns is unknown to the model, so it is drawn *)
(*     once and remembered (sil_seeded, fit_seeded).  With random_state =  *)
(*     None every call draws afresh.                                       *)
(* Plot and print statements change no program state and are folded into   *)
(* the block they belong to.  The inertias list is only plotted.           *)
(***************************************************************************)
EXTENDS Integers, Sequences, FiniteSets, TLC

VARIABLES
    disk,               \* the three input files as found on disk (the input)
    pc,                 \* position in the script
    error,              \* the uncaught exception that ended the run, if any
    ev_data,            \* line 37
    ev_makers,          \* line 46
    vehicle_sales,      \* line 54
    manufacturer_density,  \* line 76
    latest_vehicle_sales,  \* line 81
    master_data,        \* line 97
    cluster_data,       \* line 212
    scaled_features,    \* line 228
    max_clusters,       \* line 242
    K_range,            \* line 245
    silhouette_scores,  \* line 244
    optimal_k,          \* line 276
    cluster_profiles,   \* line 323: the index (row labels) of the profile table
    recs_printed,       \* cluster names whose recommendations were printed (493-494)
    fallback_printed,   \* cluster names that got the generic message (496)
    exported,           \* files written (570, 574)
    sil_seeded,         \* the score of the seeded selection fit, per partition
    fit_seeded,         \* the labels of the seeded final fit, per k
    prev                \* the outcome of the previous execution of the notebook

loads == <<ev_data, ev_makers, vehicle_sales>>
prep == <<manufacturer_density, latest_vehicle_sales>>
frames == <<master_data, cluster_data, scaled_features>>
sel == <<max_clusters, K_range, silhouette_scores, optimal_k>>
report == <<cluster_profiles, recs_printed, fallback_printed, exported>>
library == <<sil_seeded, fit_seeded>>
env == <<disk, prev>>

vars == <<pc, error, loads, prep, frames, sel, report, library, env>>

(***************************************************************************)
(* Bounds of the model.                                                    *)
(***************************************************************************)
SmallStates == 4        \* tables of 0..SmallStates states, and
ManyStates == 12        \* one table large enough for the cap of line 242
MaxScore == 1           \* silhouette scores are drawn from 0..MaxScore
FullLabelStates == 4    \* tables up to this size get every possible labelling

(***************************************************************************)
(* A Python name is unbound (<<>>) or bound to a value (<<v>>).            *)
(***************************************************************************)
Unbound == <<>>
Bound(v) == <<v>>
IsBound(x) == x # <<>>
Val(x) == x[1]

NaN == "NaN"
EmptyFn == [x \in {} |-> 0]
Min(a, b) == IF a < b THEN a ELSE b

\* A file that cannot be read.
Missing == [rows |-> -1, distinct |-> -1]

Sizes == (0 .. SmallStates) \cup {ManyStates}

\* The primary table: its number of rows (one per state) and how many of its
\* rows differ in the nine clustering features.
Tables ==
    UNION { { [rows |-> n, distinct |-> d] : d \in (IF n = 0 THEN {0} ELSE 1 .. n) }
            : n \in Sizes }

Scores == 0 .. MaxScore

Crash(type, line) ==
    /\ pc' = "crashed"
    /\ error' = Bound([type |-> type, line |-> line])

Goto(label) ==
    /\ pc' = label
    /\ error' = error

Init ==
    /\ disk \in [ev : Tables \cup {Missing}, makers : BOOLEAN, sales : BOOLEAN]
    /\ pc = "load_ev"
    /\ error = Unbound
    /\ ev_data = Unbound
    /\ ev_makers = Unbound
    /\ vehicle_sales = Unbound
    /\ manufacturer_density = Unbound
    /\ latest_vehicle_sales = Unbound
    /\ master_data = Unbound
    /\ cluster_data = Unbound
    /\ scaled_features = Unbound
    /\ max_clusters = Unbound
    /\ K_range = Unbound
    /\ silhouette_scores = Unbound
    /\ optimal_k = Unbound
    /\ cluster_profiles = Unbound
    /\ recs_printed = {}
    /\ fallback_printed = {}
    /\ exported = {}
    /\ sil_seeded = EmptyFn
    /\ fit_seeded = EmptyFn
    /\ prev = Unbound

(***************************************************************************)
(* 1. Data loading (lines 35-65).  Each read sits in a try with a bare     *)
(* except that prints a message: a failed read leaves the name unbound and *)
(* the script goes on to the next statement.                               *)
(***************************************************************************)
LoadEv ==
    /\ pc = "load_ev"
    /\ ev_data' = IF disk.ev # Missing THEN Bound(disk.ev) ELSE ev_data
    /\ Goto("load_makers")
    /\ UNCHANGED <<ev_makers, vehicle_sales, prep, frames, sel, report, library, env>>

LoadMakers ==
    /\ pc = "load_makers"
    /\ ev_makers' = IF disk.makers THEN Bound("EV Maker by Place.csv") ELSE ev_makers
    /\ Goto("load_sales")
    /\ UNCHANGED <<ev_data, vehicle_sales, prep, frames, sel, report, library, env>>

LoadSales ==
    /\ pc = "load_sales"
    /\ vehicle_sales' = IF disk.sales THEN Bound("india_vehicle_sales_yearly.xlsx")
                        ELSE vehicle_sales
    /\ Goto("describe")
    /\ UNCHANGED <<ev_data, ev_makers, prep, frames, sel, report, library, env>>

\* Lines 61-65: ev_data.info() and ev_data.describe(), outside any try.
Describe ==
    /\ pc = "describe"
    /\ IF IsBound(ev_data) THEN Goto("density") ELSE Crash("NameError", 63)
    /\ UNCHANGED <<loads, prep, frames, sel, report, library, env>>

(***************************************************************************)
(* 2. Data preparation (lines 75-119).                                     *)
(***************************************************************************)
Density ==
    /\ pc = "density"
    /\ IF IsBound(ev_makers)
       THEN /\ manufacturer_density' = Bound("Manufacturer_Count")
            /\ Goto("latest_sales")
       ELSE /\ Crash("NameError", 76)
            /\ UNCHANGED manufacturer_density
    /\ UNCHANGED <<loads, latest_vehicle_sales, frames, sel, report, library, env>>

LatestSales ==
    /\ pc = "latest_sales"
    /\ IF IsBound(vehicle_sales)
       THEN /\ latest_vehicle_sales' = Bound("Conv")
            /\ Goto("merge")
       ELSE /\ Crash("NameError", 80)
            /\ UNCHANGED latest_vehicle_sales
    /\ UNCHANGED <<loads, manufacturer_density, frames, sel, report, library, env>>

\* Lines 97-119: master_data is ev_data with the joined and derived columns;
\* the left joins keep its rows.  Lines 130-188 only plot.
Merge ==
    /\ pc = "merge"
    /\ master_data' = Bound([rows |-> Val(ev_data).rows,
                             distinct |-> Val(ev_data).distinct,
                             Cluster |-> Unbound,
                             Cluster_Name |-> Unbound])
    /\ Goto("features")
    /\ UNCHANGED <<loads, prep, cluster_data, scaled_features, sel, report, library, env>>

(***************************************************************************)
(* 4. Feature selection and scaling (lines 199-231).                       *)
(***************************************************************************)
Features ==
    /\ pc = "features"
    /\ cluster_data' = Bound([rows |-> Val(master_data).rows,
                              distinct |-> Val(master_data).distinct])
    /\ Goto("scale")
    /\ UNCHANGED <<loads, prep, master_data, scaled_features, sel, report, library, env>>

\* StandardScaler.fit_transform needs at least one row.
Scale ==
    /\ pc = "scale"
    /\ IF Val(cluster_data).rows = 0
       THEN /\ Crash("ValueError", 228)
            /\ UNCHANGED scaled_features
       ELSE /\ scaled_features' = cluster_data
            /\ Goto("select")
    /\ UNCHANGED <<loads, prep, master_data, cluster_data, sel, report, library, env>>

(***************************************************************************)
(* 5. Optimal number of clusters (lines 241-277).                          *)
(***************************************************************************)
\* The variant without the cap of ten named clusters.
max_clusters_uncapped(n) == n - 1

\* Line 242: max_clusters = min(10, len(cluster_data)-1)
max_clusters_of(n) == Min(10, n - 1)

\* Line 245: range(2, max_clusters + 1), as the sequence of its elements.
range_from_2(mc) == [i \in 1 .. (IF mc >= 2 THEN mc - 1 ELSE 0) |-> i + 1]

\* Lines 249 and 288: random_state=42.  seeded is FALSE for random_state=None.
random_state_none == [seeded |-> FALSE, seed |-> 0]
selection_random_state == [seeded |-> TRUE, seed |-> 42]
final_random_state == [seeded |-> TRUE, seed |-> 42]

\* KMeans.fit: ValueError when n_samples < n_clusters.
KMeansRaises(n, kk) == n < kk

\* The number of distinct labels of a fit with kk clusters on rows of which d differ.
DistinctLabels(kk, d) == Min(kk, d)

\* silhouette_score: ValueError unless 2 <= number of labels <= n_samples - 1.
SilhouetteRaises(n, nlabels) == ~(2 <= nlabels /\ nlabels <= n - 1)

\* The scores the fit of the loop body can get.  The partition of a fit with
\* kk < d clusters depends on the seeding; with kk >= d it is the partition into
\* the d distinct rows whatever the seeding, and so is its score.
FitScores(rs, kk, d) ==
    IF DistinctLabels(kk, d) \in DOMAIN sil_seeded /\ (rs.seeded \/ kk >= d)
    THEN {sil_seeded[DistinctLabels(kk, d)]}
    ELSE Scores

RememberScore(rs, kk, d, s) ==
    IF rs.seeded \/ kk >= d
    THEN [e \in DOMAIN sil_seeded \cup {DistinctLabels(kk, d)} |->
             IF e = DistinctLabels(kk, d) THEN s ELSE sil_seeded[e]]
    ELSE sil_seeded

SelectSetup ==
    /\ pc = "select"
    /\ max_clusters' = Bound(max_clusters_of(Val(cluster_data).rows))
    /\ K_range' = Bound(range_from_2(max_clusters_of(Val(cluster_data).rows)))
    /\ silhouette_scores' = Bound(<<>>)
    /\ Goto("select_loop")
    /\ UNCHANGED <<loads, prep, frames, optimal_k, report, library, env>>

\* One pass of the loop of lines 248-253.
SelectFit ==
    /\ pc = "select_loop"
    /\ Len(Val(silhouette_scores)) < Len(Val(K_range))
    /\ LET kk == Val(K_range)[Len(Val(silhouette_scores)) + 1]
           n == Val(scaled_features).rows
           d == Val(scaled_features).distinct
       IN  IF KMeansRaises(n, kk)
           THEN /\ Crash("ValueError", 250)
                /\ UNCHANGED <<silhouette_scores, sil_seeded>>
           ELSE IF SilhouetteRaises(n, DistinctLabels(kk, d))
           THEN /\ Crash("ValueError", 252)
                /\ UNCHANGED <<silhouette_scores, sil_seeded>>
           ELSE \E s \in FitScores(selection_random_state, kk, d) :
                /\ silhouette_scores' = Bound(Append(Val(silhouette_scores), s))
                /\ sil_seeded' = RememberScore(selection_random_state, kk, d, s)
                /\ Goto("select_loop")
    /\ UNCHANGED <<loads, prep, frames, max_clusters, K_range, optimal_k, report,
                   fit_seeded, env>>

\* The comparison that keeps the later of two equal maxima.
BetterOrEqual(a, b) == a >= b

\* np.argmax keeps the first of equal maxima: a later entry wins only when greater.
Better(a, b) == a > b

RECURSIVE ArgMaxFrom(_, _, _)
ArgMaxFrom(s, i, best) ==
    IF i > Len(s) THEN best
    ELSE ArgMaxFrom(s, i + 1, IF Better(s[i], s[best]) THEN i ELSE best)

\* np.argmax(s), zero-based, of a non-empty s.
argmax(s) == ArgMaxFrom(s, 2, 1) - 1

\* The variant that falls back to two clusters when nothing was scored.
optimal_k_or_default(Kr, s) ==
    IF Len(s) = 0 THEN Bound(2) ELSE Bound(Kr[argmax(s) + 1])

\* Line 276: K_range[np.argmax(silhouette_scores)].  np.argmax raises ValueError
\* on an empty sequence (Unbound stands for the raise).
optimal_k_of(Kr, s) ==
    IF Len(s) = 0 THEN Unbound ELSE Bound(Kr[argmax(s) + 1])

FindOptimalK ==
    /\ pc = "select_loop"
    /\ Len(Val(silhouette_scores)) = Len(Val(K_range))
    /\ IF IsBound(optimal_k_of(Val(K_range), Val(silhouette_scores)))
       THEN /\ optimal_k' = optimal_k_of(Val(K_range), Val(silhouette_scores))
            /\ Goto("cluster")
       ELSE /\ Crash("ValueError", 276)
            /\ UNCHANGED optimal_k
    /\ UNCHANGED <<loads, prep, frames, max_clusters, K_range, silhouette_scores,
                   report, library, env>>

(***************************************************************************)
(* 6. Final clustering and naming (lines 288-312).                         *)
(***************************************************************************)
\* The ids a fit with kk clusters uses when d rows differ: all of them when
\* d >= kk; otherwise d of them, the first centre's id 0 among them.
UsedIds(kk, d) ==
    IF d >= kk THEN {0 .. kk - 1}
    ELSE {U \in SUBSET (0 .. kk - 1) : 0 \in U /\ Cardinality(U) = d}

Nth(U, i) == CHOOSE x \in U : Cardinality({y \in U : y < x}) = i - 1

\* The label columns with exactly the ids U: every one for a small table; for
\* a larger table the first rows take the ids in order and the rest all join
\* the smallest or all join the largest.
LabelColumns(n, U) ==
    IF n <= FullLabelStates
    THEN {f \in [1 .. n -> U] : {f[i] : i \in 1 .. n} = U}
    ELSE {[i \in 1 .. n |-> IF i <= Cardinality(U) THEN Nth(U, i) ELSE c] :
             c \in {Nth(U, 1), Nth(U, Cardinality(U))}}

\* What fit_predict can return.
FitLabels(rs, kk, n, d) ==
    IF rs.seeded /\ kk \in DOMAIN fit_seeded
    THEN {fit_seeded[kk]}
    ELSE UNION {LabelColumns(n, U) : U \in UsedIds(kk, d)}

RememberLabels(rs, kk, f) ==
    IF rs.seeded
    THEN [e \in DOMAIN fit_seeded \cup {kk} |-> IF e = kk THEN f ELSE fit_seeded[e]]
    ELSE fit_seeded

\* The variant that fits the largest candidate instead of the selected one.
final_n_clusters_max == Val(max_clusters)

\* Line 288: n_clusters=optimal_k.
final_n_clusters == Val(optimal_k)

\* Lines 288-292.
FinalFit ==
    /\ pc = "cluster"
    /\ LET kk == final_n_clusters
           n == Val(scaled_features).rows
           d == Val(scaled_features).distinct
       IN  IF KMeansRaises(n, kk)
           THEN /\ Crash("ValueError", 289)
                /\ UNCHANGED <<master_data, fit_seeded>>
           ELSE \E f \in FitLabels(final_random_state, kk, n, d) :
                /\ master_data' = Bound([Val(master_data) EXCEPT !.Cluster = Bound(f)])
                /\ fit_seeded' = RememberLabels(final_random_state, kk, f)
                /\ Goto("name")
    /\ UNCHANGED <<loads, prep, cluster_data, scaled_features, sel, report, sil_seeded, env>>

\* Lines 294-305.
cluster_names ==
    << "High Potential Markets", "Emerging Markets", "Mature Markets",
       "Developing Markets", "Niche Markets", "Infrastructure Focus",
       "Growth Markets", "Low Adoption, Low Infra", "Manufacturer Hubs",
       "Specific Vehicle Mix" >>

\* A table in which two ids carry the same name.
cluster_names_map_repeated ==
    [id \in 0 .. 9 |-> IF id = 1 THEN cluster_names[1] ELSE cluster_names[id + 1]]

cluster_names_map == [id \in 0 .. 9 |-> cluster_names[id + 1]]

\* Series.map(dict): the value of the key, NaN for a key the dict lacks.
MapName(id) ==
    IF id \in DOMAIN cluster_names_map THEN cluster_names_map[id] ELSE NaN

\* Lines 306-312.
NameClusters ==
    /\ pc = "name"
    /\ master_data' =
          Bound([Val(master_data) EXCEPT !.Cluster_Name =
                    Bound([i \in 1 .. Val(master_data).rows |->
                              MapName(Val(Val(master_data).Cluster)[i])])])
    /\ Goto("profile")
    /\ UNCHANGED <<loads, prep, cluster_data, scaled_features, sel, report, library, env>>

(***************************************************************************)
(* 7-11. Profiles, insights, recommendations, export (lines 323-585).      *)
(***************************************************************************)
\* The values of a column, as Series.unique() and groupby see them.
Values(col) == {col[i] : i \in DOMAIN col}

\* Lines 323-412: groupby('Cluster_Name') makes one row per name and drops NaN.
\* The plots and the insight loop that follow only print what is in master_data.
Profile ==
    /\ pc = "profile"
    /\ cluster_profiles' = Bound(Values(Val(Val(master_data).Cluster_Name)) \ {NaN})
    /\ Goto("recommend")
    /\ UNCHANGED <<loads, prep, frames, sel, recs_printed, fallback_printed, exported,
                   library, env>>

\* A dict that lacks the entry of the tenth name.
recommendations_short ==
    { "High Potential Markets", "Mature Markets", "Emerging Markets",
      "Developing Markets", "Niche Markets", "Infrastructure Focus",
      "Growth Markets", "Low Adoption, Low Infra", "Manufacturer Hubs" }

\* Lines 422-483: the keys of the recommendations dict.
recommendations ==
    { "High Potential Markets", "Mature Markets", "Emerging Markets",
      "Developing Markets", "Niche Markets", "Infrastructure Focus",
      "Growth Markets", "Low Adoption, Low Infra", "Manufacturer Hubs",
      "Specific Vehicle Mix" }

\* Lines 486-554: for every name but NaN, its recommendations or the generic
\* message; then the plotly figures.
Recommend ==
    /\ pc = "recommend"
    /\ LET names == Values(Val(Val(master_data).Cluster_Name)) \ {NaN}
       IN  /\ recs_printed' = {c \in names : c \in recommendations}
           /\ fallback_printed' = {c \in names : c \notin recommendations}
    /\ Goto("export")
    /\ UNCHANGED <<loads, prep, frames, sel, cluster_profiles, exported, library, env>>

\* Lines 565-585: the two to_csv calls and the printed summary, after which the
\* script is over.
Export ==
    /\ pc = "export"
    /\ exported' = {"geographic_market_segmentation_results.csv", "cluster_profiles.csv"}
    /\ Goto("done")
    /\ UNCHANGED <<loads, prep, frames, sel, cluster_profiles, recs_printed,
                   fallback_printed, library, env>>

(***************************************************************************)
(* The notebook executed a second time, from a fresh kernel, on the same    *)
(* files.                                                                  *)
(***************************************************************************)
Outcome ==
    [pc |-> pc, error |-> error, optimal_k |-> optimal_k,
     Cluster |-> IF IsBound(master_data) THEN Val(master_data).Cluster ELSE Unbound]

Rerun ==
    /\ pc \in {"done", "crashed"}
    /\ ~IsBound(prev)
    /\ prev' = Bound(Outcome)
    /\ pc' = "load_ev"
    /\ error' = Unbound
    /\ ev_data' = Unbound
    /\ ev_makers' = Unbound
    /\ vehicle_sales' = Unbound
    /\ manufacturer_density' = Unbound
    /\ latest_vehicle_sales' = Unbound
    /\ master_data' = Unbound
    /\ cluster_data' = Unbound
    /\ scaled_features' = Unbound
    /\ max_clusters' = Unbound
    /\ K_range' = Unbound
    /\ silhouette_scores' = Unbound
    /\ optimal_k' = Unbound
    /\ cluster_profiles' = Unbound
    /\ recs_printed' = {}
    /\ fallback_printed' = {}
    /\ exported' = {}
    /\ UNCHANGED <<disk, library>>

Next ==
    \/ LoadEv
    \/ LoadMakers
    \/ LoadSales
    \/ Describe
    \/ Density
    \/ LatestSales
    \/ Merge
    \/ Features
    \/ Scale
    \/ SelectSetup
    \/ SelectFit
    \/ FindOptimalK
    \/ FinalFit
    \/ NameClusters
    \/ Profile
    \/ Recommend
    \/ Export
    \/ Rerun

Spec == Init /\ [][Next]_vars

(***************************************************************************)
(* The join of lines 76-111 row by row.  SpecJoin starts where the three   *)
(* reads have succeeded: ev_data holds one row per state key, ev_makers    *)
(* one row per manufacturer location, vehicle_sales one row per state and  *)
(* year with the five sales columns.  Only the columns the join touches    *)
(* are kept.                                                               *)
(***************************************************************************)
JoinKeys == 2           \* state keys are 1..JoinKeys
JoinRows == 2           \* each secondary table has at most this many rows

\* A numeric cell: a number, or NaN (missing), or plus or minus infinity.
Num(v) == [nan |-> FALSE, inf |-> 0, v |-> v]
np_nan == [nan |-> TRUE, inf |-> 0, v |-> 0]
np_inf == [nan |-> FALSE, inf |-> 1, v |-> 0]
neg_inf == [nan |-> FALSE, inf |-> -1, v |-> 0]

Years == {2022, 2023}

\* Line 110.
conv_cols ==
    {"Conv_Two_Wheeler", "Conv_Three_Wheeler", "Conv_Cars", "Conv_Buses", "Conv_Trucks"}

\* The sales figures of one row: all present, or the Cars cell empty.
SalesFigures ==
    { [c \in conv_cols |-> Num(1)],
      [c \in conv_cols |-> IF c = "Conv_Cars" THEN np_nan ELSE Num(1)] }

SeqsUpTo(S, n) == UNION {[1 .. m -> S] : m \in 0 .. n}

EvTables == {[i \in 1 .. n |-> [State |-> i]] : n \in 0 .. JoinKeys}
MakerTables == SeqsUpTo({[State |-> key] : key \in 1 .. JoinKeys}, JoinRows)
SalesTables ==
    SeqsUpTo({[State |-> key, Year |-> y, conv |-> f] :
                 key \in 1 .. JoinKeys, y \in Years, f \in SalesFigures}, JoinRows)

InitJoin ==
    /\ disk \in [ev : EvTables, makers : MakerTables, sales : SalesTables]
    /\ pc = "density"
    /\ error = Unbound
    /\ ev_data = Bound(disk.ev)
    /\ ev_makers = Bound(disk.makers)
    /\ vehicle_sales = Bound(disk.sales)
    /\ manufacturer_density = Unbound
    /\ latest_vehicle_sales = Unbound
    /\ master_data = Unbound
    /\ cluster_data = Unbound
    /\ scaled_features = Unbound
    /\ max_clusters = Unbound
    /\ K_range = Unbound
    /\ silhouette_scores = Unbound
    /\ optimal_k = Unbound
    /\ cluster_profiles = Unbound
    /\ recs_printed = {}
    /\ fallback_printed = {}
    /\ exported = {}
    /\ sil_seeded = EmptyFn
    /\ fit_seeded = EmptyFn
    /\ prev = Unbound

\* The values of column col of a table, in row order.
Column(t, col) == [i \in 1 .. Len(t) |-> t[i][col]]

RECURSIVE SortedSeq(_)
SortedSeq(S) ==
    IF S = {} THEN <<>>
    ELSE LET least == CHOOSE x \in S : \A y \in S : x <= y
         IN  <<least>> \o SortedSeq(S \ {least})

\* Line 76: groupby('State').size().reset_index(name='Manufacturer_Count'):
\* one row per State of the listing, in key order, with its number of rows.
GroupSize(t) ==
    LET keys == SortedSeq(Values(Column(t, "State")))
    IN  [i \in 1 .. Len(keys) |->
            [State |-> keys[i],
             Manufacturer_Count |->
                 Cardinality({j \in 1 .. Len(t) : t[j].State = keys[i]})]]

DensityRows ==
    /\ pc = "density"
    /\ manufacturer_density' = Bound(GroupSize(Val(ev_makers)))
    /\ Goto("latest_sales")
    /\ UNCHANGED <<loads, latest_vehicle_sales, frames, sel, report, library, env>>

\* Lines 80-90: the rows of the largest Year (none when the table is empty),
\* their columns renamed.
LatestRows(t) ==
    LET IsLatest(r) == \A j \in 1 .. Len(t) : t[j].Year <= r.Year
    IN  SelectSeq(t, IsLatest)

LatestSalesRows ==
    /\ pc = "latest_sales"
    /\ latest_vehicle_sales' = Bound(LatestRows(Val(vehicle_sales)))
    /\ Goto("merge")
    /\ UNCHANGED <<loads, manufacturer_density, frames, sel, report, library, env>>

\* DataFrame.merge(right, on='State', how='left'): every left row once per
\* right row of its key, in order, or once with `none` when the key has no
\* right row.  The result pairs each left row with its right row.
RECURSIVE Concat(_)
Concat(blocks) ==
    IF blocks = <<>> THEN <<>> ELSE Head(blocks) \o Concat(Tail(blocks))

LeftMerge(left, right, none) ==
    LET Block(l) ==
            LET SameKey(r) == r.State = l.State
                found == SelectSeq(right, SameKey)
            IN  IF found = <<>> THEN <<[l |-> l, r |-> none]>>
                ELSE [i \in 1 .. Len(found) |-> [l |-> l, r |-> found[i]]]
    IN  Concat([i \in 1 .. Len(left) |-> Block(left[i])])

\* A fillna that keeps a missing cell.
KeepNa(c) == c

\* fillna(0) on one cell.
FillNa0(c) == IF c.nan THEN Num(0) ELSE c

\* Lines 97-101.
WithCount(l, r) == [State |-> l.State, Manufacturer_Count |-> r.Manufacturer_Count]

MergeMakersRows ==
    /\ pc = "merge"
    /\ LET density == [i \in 1 .. Len(Val(manufacturer_density)) |->
                          [State |-> Val(manufacturer_density)[i].State,
                           Manufacturer_Count |->
                               Num(Val(manufacturer_density)[i].Manufacturer_Count)]]
           merged == LeftMerge(Val(ev_data), density,
                               [State |-> 0, Manufacturer_Count |-> np_nan])
       IN  master_data' =
              Bound([i \in 1 .. Len(merged) |->
                        [WithCount(merged[i].l, merged[i].r)
                            EXCEPT !.Manufacturer_Count = FillNa0(@)]])
    /\ Goto("merge_sales")
    /\ UNCHANGED <<loads, prep, cluster_data, scaled_features, sel, report, library, env>>

\* Lines 104-111.
WithSales(l, r) ==
    [State |-> l.State, Manufacturer_Count |-> l.Manufacturer_Count, conv |-> r.conv]

MergeSalesRows ==
    /\ pc = "merge_sales"
    /\ LET merged == LeftMerge(Val(master_data), Val(latest_vehicle_sales),
                               [State |-> 0, conv |-> [c \in conv_cols |-> np_nan]])
       IN  master_data' =
              Bound([i \in 1 .. Len(merged) |->
                        [WithSales(merged[i].l, merged[i].r)
                            EXCEPT !.conv = [c \in conv_cols |-> FillNa0(@[c])]]])
    /\ Goto("joined")
    /\ UNCHANGED <<loads, prep, cluster_data, scaled_features, sel, report, library, env>>

NextJoin ==
    \/ DensityRows
    \/ LatestSalesRows
    \/ MergeMakersRows
    \/ MergeSalesRows

SpecJoin == InitJoin /\ [][NextJoin]_vars

(***************************************************************************)
(* The preprocessing of lines 199-228 cell by cell.  SpecPre starts with   *)
(* master_data built: a row per state, a cell per feature column.  The     *)
(* feature columns come from the EV file (and line 115), so a cell may be  *)
(* a number, NaN or an infinity.  apply() treats every column alone, so    *)
(* the first PreColumns columns stand for the nine.                        *)
(***************************************************************************)
PreRows == 2            \* master_data has at most this many rows
PreColumns == 2         \* feature columns carried by the model

\* Lines 199-209.
segmentation_features ==
    <<"Total_EV_Registrations", "EV_Market_Share_Pct", "Charging_Stations_Sanctioned",
      "Infrastructure_Readiness_Score", "Manufacturer_Count", "EV_to_Conv_Ratio",
      "EVs_per_Charging_Station", "Two_Wheeler_Percentage", "Four_Wheeler_Percentage">>

FeatureColumns ==
    {segmentation_features[i] :
        i \in 1 .. Min(PreColumns, Len(segmentation_features))}

FiniteValues == {0, 1}
Cells == {Num(v) : v \in FiniteValues} \cup {np_nan, np_inf, neg_inf}
FeatureTables == SeqsUpTo([FeatureColumns -> Cells], PreRows)

Finite(c) == ~c.nan /\ c.inf = 0

InitPre ==
    /\ disk \in [ev : FeatureTables]
    /\ pc = "features"
    /\ error = Unbound
    /\ ev_data = Bound(disk.ev)
    /\ ev_makers = Unbound
    /\ vehicle_sales = Unbound
    /\ manufacturer_density = Unbound
    /\ latest_vehicle_sales = Unbound
    /\ master_data = Bound(disk.ev)
    /\ cluster_data = Unbound
    /\ scaled_features = Unbound
    /\ max_clusters = Unbound
    /\ K_range = Unbound
    /\ silhouette_scores = Unbound
    /\ optimal_k = Unbound
    /\ cluster_profiles = Unbound
    /\ recs_printed = {}
    /\ fallback_printed = {}
    /\ exported = {}
    /\ sil_seeded = EmptyFn
    /\ fit_seeded = EmptyFn
    /\ prev = Unbound

\* Line 212.
SelectFeatureCells ==
    /\ pc = "features"
    /\ cluster_data' =
          Bound([i \in 1 .. Len(Val(master_data)) |->
                    [c \in FeatureColumns |-> Val(master_data)[i][c]]])
    /\ Goto("replace")
    /\ UNCHANGED <<loads, prep, master_data, scaled_features, sel, report, library, env>>

\* Line 215: replace([np.inf, -np.inf], np.nan).
ReplaceInf(c) == IF c = np_inf \/ c = neg_inf THEN np_nan ELSE c

ReplaceInfCells ==
    /\ pc = "replace"
    /\ cluster_data' =
          Bound([i \in 1 .. Len(Val(cluster_data)) |->
                    [c \in FeatureColumns |-> ReplaceInf(Val(cluster_data)[i][c])]])
    /\ Goto("fillna")
    /\ UNCHANGED <<loads, prep, master_data, scaled_features, sel, report, library, env>>

\* The order of float cells that are not NaN.
CellLeq(a, b) ==
    \/ a.inf < b.inf
    \/ a.inf = b.inf /\ (a.inf # 0 \/ a.v <= b.v)

\* Series.max(): the largest cell that is not NaN; NaN when there is none.
SeriesMax(x) ==
    LET present == {x[i] : i \in {j \in 1 .. Len(x) : ~x[j].nan}}
    IN  IF present = {} THEN np_nan
        ELSE CHOOSE m \in present : \A c \in present : CellLeq(c, m)

\* Series.fillna(value).
FillNa(c, value) == IF c.nan THEN value ELSE c

\* Line 217: apply(lambda x: x.fillna(x.max())), column by column.
FillNaCells ==
    /\ pc = "fillna"
    /\ cluster_data' =
          Bound([i \in 1 .. Len(Val(cluster_data)) |->
                    [c \in FeatureColumns |->
                        FillNa(Val(cluster_data)[i][c],
                               SeriesMax(Column(Val(cluster_data), c)))]])
    /\ Goto("scale")
    /\ UNCHANGED <<loads, prep, master_data, scaled_features, sel, report, library, env>>

\* Lines 227-228: StandardScaler.fit_transform raises on a table without rows
\* and on an infinity; NaN cells are ignored in fitting and stay NaN.  A scaled
\* cell is kept as "is it a number".
ScaleCells ==
    /\ pc = "scale"
    /\ IF \/ Val(cluster_data) = <<>>
          \/ \E i \in 1 .. Len(Val(cluster_data)) :
                \E c \in FeatureColumns : Val(cluster_data)[i][c].inf # 0
       THEN /\ Crash("ValueError", 228)
            /\ UNCHANGED scaled_features
       ELSE /\ scaled_features' =
                  Bound([i \in 1 .. Len(Val(cluster_data)) |->
                            [c \in FeatureColumns |-> Finite(Val(cluster_data)[i][c])]])
            /\ Goto("scaled")
    /\ UNCHANGED <<loads, prep, master_data, cluster_data, sel, report, library, env>>

NextPre ==
    \/ SelectFeatureCells
    \/ ReplaceInfCells
    \/ FillNaCells
    \/ ScaleCells

SpecPre == InitPre /\ [][NextPre]_vars

(***************************************************************************)
(* Properties.                                                             *)
(***************************************************************************)
Rows == Val(ev_data).rows
Labelled == IsBound(master_data) /\ IsBound(Val(master_data).Cluster)
Cluster == Val(Val(master_data).Cluster)

C5_ProfileRowsEqualDistinctIds ==
    IsBound(cluster_profiles) =>
        Cardinality(Val(cluster_profiles)) = Cardinality(Values(Cluster))

\* A profile table of at least three rows, among them the names of ids 0 and 1.
C5_Witness ==
    /\ IsBound(cluster_profiles)
    /\ Cardinality(Val(cluster_profiles)) >= 3
    /\ {0, 1} \subseteq Values(Cluster)

\* C6: a second execution on the same files chooses the optimal_k the first
\* one chose and gives every state the cluster id the first one gave it.
C6_RerunSameAssignment ==
    /\ (IsBound(prev) /\ IsBound(optimal_k)) => optimal_k = Val(prev).optimal_k
    /\ (IsBound(prev) /\ Labelled) => Val(master_data).Cluster = Val(prev).Cluster
    /\ (IsBound(prev) /\ pc = "done") => Val(prev).pc = "done"

\* A second execution that completed, with more than one possible labelling.
C6_Witness ==
    /\ IsBound(prev)
    /\ pc = "done"
    /\ Rows >= 4
    /\ Val(optimal_k) >= 3

\* C7: a failed load of the primary table ends the run at the load itself
\* (lines 36-42): no later statement is reached.
C7_PrimaryLoadFailureIsFatal ==
    (disk.ev = Missing /\ pc # "load_ev") =>
        /\ pc = "crashed"
        /\ Val(error).line \in 36 .. 42

\* C8: with the primary table loaded and the manufacturer listing or the
\* sales table unreadable, the run does not abort on the missing table.
C8_MissingSecondaryDegrades ==
    (disk.ev # Missing /\ (~disk.makers \/ ~disk.sales)) =>
        ~(pc = "crashed" /\ Val(error).type = "NameError")

\* C15: once the table is labelled every assigned cluster id is a key of
\* cluster_names_map; once it is named no state has a missing Cluster_Name;
\* the generic message is never printed, and after the recommendation step
\* every assigned name has had its recommendations printed.
C15_LabelResolutionTotal ==
    /\ Labelled => \A i \in 1 .. Rows : Cluster[i] \in DOMAIN cluster_names_map
    /\ (Labelled /\ IsBound(Val(master_data).Cluster_Name)) =>
          \A i \in 1 .. Rows : Val(Val(master_data).Cluster_Name)[i] # NaN
    /\ fallback_printed = {}
    /\ pc \in {"export", "done"} =>
          recs_printed = Values(Val(Val(master_data).Cluster_Name))

\* A finished run with ten clusters: every entry of both tables was needed.
C15_Witness ==
    /\ pc = "done"
    /\ Val(optimal_k) = 10
    /\ Cardinality(recs_printed) = 10

\* The states without a row in the manufacturer listing, and without a row of
\* the latest year in the sales table.
NoListing(key) == \A j \in 1 .. Len(disk.makers) : disk.makers[j].State # key
NoLatestSales(key) ==
    \A j \in 1 .. Len(disk.sales) :
        ~(/\ disk.sales[j].State = key
          /\ \A i \in 1 .. Len(disk.sales) : disk.sales[i].Year <= disk.sales[j].Year)

\* C13: after the join a state without a row in the manufacturer listing has
\* Manufacturer_Count = 0, a state without a row of the latest year in the
\* sales table has its five conventional-sales columns = 0, and no joined
\* cell of any row is missing.
C13_UnmatchedStatesGetZero ==
    /\ pc \in {"merge_sales", "joined"} =>
          \A i \in 1 .. Len(Val(master_data)) :
              LET r == Val(master_data)[i]
              IN  /\ ~r.Manufacturer_Count.nan
                  /\ NoListing(r.State) => r.Manufacturer_Count = Num(0)
    /\ pc = "joined" =>
          \A i \in 1 .. Len(Val(master_data)) :
              LET r == Val(master_data)[i]
              IN  /\ \A c \in conv_cols : ~r.conv[c].nan
                  /\ NoLatestSales(r.State) => \A c \in conv_cols : r.conv[c] = Num(0)

\* A joined table with a state matched in neither table, and a state whose
\* sales row came with an empty cell.
C13_Witness ==
    /\ pc = "joined"
    /\ \E i \in 1 .. Len(Val(master_data)) :
          /\ NoListing(Val(master_data)[i].State)
          /\ NoLatestSales(Val(master_data)[i].State)
    /\ \E i \in 1 .. Len(Val(master_data)) :
          /\ ~NoLatestSales(Val(master_data)[i].State)
          /\ Val(master_data)[i].conv["Conv_Cars"] = Num(0)
          /\ Val(master_data)[i].conv["Conv_Buses"] = Num(1)

\* C14: with one row per state key in ev_data, master_data has one row per
\* state key after each of the two joins.
C14_OneRecordPerState ==
    pc \in {"merge_sales", "joined"} =>
        /\ Len(Val(master_data)) = Len(Val(ev_data))
        /\ \A i, j \in 1 .. Len(Val(master_data)) :
              Val(master_data)[i].State = Val(master_data)[j].State => i = j

\* C11: after preprocessing every cell of every feature column of
\* cluster_data is finite, and so is every scaled cell.
C11_PreprocessedCellsFinite ==
    /\ pc \in {"scale", "scaled"} =>
          \A i \in 1 .. Len(Val(cluster_data)) :
              \A c \in FeatureColumns : Finite(Val(cluster_data)[i][c])
    /\ pc = "scaled" =>
          \A i \in 1 .. Len(Val(scaled_features)) :
              \A c \in FeatureColumns : Val(scaled_features)[i][c]

\* C12: after preprocessing a cell that was finite in master_data is
\* unchanged, and a cell that was missing or infinite holds the largest finite
\* value of its column in master_data.
C12_NonFiniteBecomeColumnMax ==
    pc \in {"scale", "scaled"} =>
        \A i \in 1 .. Len(Val(master_data)) :
            \A c \in FeatureColumns :
                LET was == Val(master_data)[i][c]
                    now == Val(cluster_data)[i][c]
                    finite == {x \in Values(Column(Val(master_data), c)) : Finite(x)}
                IN  IF Finite(was) THEN now = was
                    ELSE \E m \in finite :
                            /\ \A x \in finite : x.v <= m.v
                            /\ now = m

====
